---------------------------- MODULE Spec2Model ----------------------------
(***************************************************************************)
(* Model of the logo / social-profile extraction pipeline of app.js:       *)
(* fetchCompanyLogo, scoreImageCandidate, downloadAndValidateImage and     *)
(* extractSocialProfiles.  Strings are TLA+ strings handled character by   *)
(* character (Len, SubSeq and \o work on strings in TLC).                  *)
(***************************************************************************)
EXTENDS Integers, Sequences, FiniteSets, TLC

(***************************************************************************)
(* Bounds of the model.                                                    *)
(***************************************************************************)
MaxImgs == 2
MaxAnchors == 1
MaxLoopAnchors == 3

(***************************************************************************)
(* JavaScript values.  null and undefined are marker strings that are no   *)
(* URL and no attribute value of any pool below.                           *)
(***************************************************************************)
Null == "<null>"
Undefined == "<undefined>"

(***************************************************************************)
(* String primitives of JavaScript, character by character.                *)
(***************************************************************************)
CharAt(s, i) == SubSeq(s, i, i)

StartsWith(s, p) == Len(s) >= Len(p) /\ SubSeq(s, 1, Len(p)) = p

StartsWithAt(s, p, i) ==
    i + Len(p) - 1 <= Len(s) /\ SubSeq(s, i, i + Len(p) - 1) = p

EndsWith(s, p) ==
    Len(s) >= Len(p) /\ SubSeq(s, Len(s) - Len(p) + 1, Len(s)) = p

Includes(s, p) == \E i \in 1..(Len(s) - Len(p) + 1) : StartsWithAt(s, p, i)

From(s, i) == SubSeq(s, i, Len(s))

Upto(s, i) == SubSeq(s, 1, i)

\* index of the first character of s, at or after position i, that lies in
\* the set cs; Len(s) + 1 when there is none
RECURSIVE FindFrom(_, _, _)
FindFrom(s, cs, i) ==
    IF i > Len(s) THEN Len(s) + 1
    ELSE IF CharAt(s, i) \in cs THEN i
    ELSE FindFrom(s, cs, i + 1)

UpperToLower ==
    [A |-> "a", B |-> "b", C |-> "c", D |-> "d", E |-> "e", F |-> "f",
     G |-> "g", H |-> "h", I |-> "i", J |-> "j", K |-> "k", L |-> "l",
     M |-> "m", N |-> "n", O |-> "o", P |-> "p", Q |-> "q", R |-> "r",
     S |-> "s", T |-> "t", U |-> "u", V |-> "v", W |-> "w", X |-> "x",
     Y |-> "y", Z |-> "z"]

LowerChar(c) == IF c \in DOMAIN UpperToLower THEN UpperToLower[c] ELSE c

RECURSIVE ToLowerCase(_)
ToLowerCase(s) ==
    IF Len(s) = 0 THEN ""
    ELSE LowerChar(CharAt(s, 1)) \o ToLowerCase(From(s, 2))

WhiteSpace == {" ", "\t", "\n"}

RECURSIVE TrimStart(_)
TrimStart(s) ==
    IF Len(s) > 0 /\ CharAt(s, 1) \in WhiteSpace THEN TrimStart(From(s, 2))
    ELSE s

RECURSIVE TrimEnd(_)
TrimEnd(s) ==
    IF Len(s) > 0 /\ CharAt(s, Len(s)) \in WhiteSpace
    THEN TrimEnd(Upto(s, Len(s) - 1))
    ELSE s

Trim(s) == TrimEnd(TrimStart(s))

Letters ==
    {"a", "b", "c", "d", "e", "f", "g", "h", "i", "j", "k", "l", "m", "n",
     "o", "p", "q", "r", "s", "t", "u", "v", "w", "x", "y", "z"}

Digits == {"0", "1", "2", "3", "4", "5", "6", "7", "8", "9"}

RECURSIVE AllIn(_, _)
AllIn(s, cs) ==
    Len(s) = 0 \/ (CharAt(s, 1) \in cs /\ AllIn(From(s, 2), cs))

(***************************************************************************)
(* new URL(input, base) and URL.prototype.toString of the WHATWG URL       *)
(* standard, for URLs without userinfo, IPv4/IPv6 literals, backslashes,   *)
(* dot segments and characters that need percent-encoding in the path.     *)
(* A parsed URL is a record; host, query and fragment are Null when        *)
(* absent, port is "" when absent or the scheme's default.                 *)
(***************************************************************************)
URLFailure == [failure |-> TRUE]
NoBase == [nobase |-> TRUE]

SpecialSchemes == {"http", "https", "ftp", "ws", "wss"}

DefaultPort(scheme) ==
    CASE scheme = "http" -> 80
      [] scheme = "ws" -> 80
      [] scheme = "https" -> 443
      [] scheme = "wss" -> 443
      [] scheme = "ftp" -> 21
      [] OTHER -> -1

SchemeChars == Letters \cup DOMAIN UpperToLower \cup Digits \cup {"+", "-", "."}

ForbiddenHostChars ==
    WhiteSpace \cup {"#", "/", ":", "<", ">", "?", "@", "[", "\\", "]", "^", "|"}

DigitString == "0123456789"

DigitVal(c) == (CHOOSE i \in 1..10 : CharAt(DigitString, i) = c) - 1

RECURSIVE ParseInt(_)
ParseInt(s) ==
    IF Len(s) = 0 THEN 0
    ELSE 10 * ParseInt(Upto(s, Len(s) - 1)) + DigitVal(CharAt(s, Len(s)))

RECURSIVE IntToString(_)
IntToString(n) ==
    IF n < 10 THEN CharAt(DigitString, n + 1)
    ELSE IntToString(n \div 10) \o CharAt(DigitString, (n % 10) + 1)

\* index of the last "/" of p, 0 when there is none
RECURSIVE LastSlash(_, _)
LastSlash(p, i) ==
    IF i = 0 THEN 0
    ELSE IF CharAt(p, i) = "/" THEN i
    ELSE LastSlash(p, i - 1)

\* "shorten the path": the base path up to and including its last "/"
DirName(p) == IF LastSlash(p, Len(p)) = 0 THEN "/" ELSE Upto(p, LastSlash(p, Len(p)))

RECURSIVE SkipSlashes(_)
SkipSlashes(s) == IF StartsWith(s, "/") THEN SkipSlashes(From(s, 2)) ELSE s

\* authority state, host state, port state and path start state
ParseAuthority(scheme, a, query, fragment) ==
    LET special == scheme \in SpecialSchemes
        e == FindFrom(a, {"/"}, 1)
        auth == Upto(a, e - 1)
        rawPath == From(a, e)
        p == FindFrom(auth, {":"}, 1)
        hostStr == Upto(auth, p - 1)
        portStr == From(auth, p + 1)
        port == IF portStr = "" THEN -1 ELSE ParseInt(portStr)
    IN  IF hostStr = "" /\ (special \/ p <= Len(auth)) THEN URLFailure
        ELSE IF \E i \in 1..Len(hostStr) : CharAt(hostStr, i) \in ForbiddenHostChars
        THEN URLFailure
        ELSE IF ~AllIn(portStr, Digits) \/ Len(portStr) > 5 \/ port > 65535
        THEN URLFailure
        ELSE [scheme |-> scheme,
              host |-> IF special THEN ToLowerCase(hostStr) ELSE hostStr,
              port |-> IF port = -1 \/ port = DefaultPort(scheme) THEN ""
                       ELSE IntToString(port),
              path |-> IF special /\ rawPath = "" THEN "/" ELSE rawPath,
              opaque |-> FALSE,
              query |-> query,
              fragment |-> fragment]

\* relative state: r has no scheme and is resolved against a hierarchical base
ParseRelative(r, query, fragment, base) ==
    IF StartsWith(r, "//")
    THEN ParseAuthority(base.scheme,
                        IF base.scheme \in SpecialSchemes
                        THEN SkipSlashes(r) ELSE From(r, 3),
                        query, fragment)
    ELSE IF StartsWith(r, "/")
    THEN [base EXCEPT !.path = r, !.query = query, !.fragment = fragment]
    ELSE IF r = ""
    THEN [base EXCEPT !.query = IF query = Null THEN base.query ELSE query,
                      !.fragment = fragment]
    ELSE [base EXCEPT !.path = DirName(base.path) \o r,
                      !.query = query, !.fragment = fragment]

ParseURL(input, base) ==
    LET s0 == Trim(input)
        f == FindFrom(s0, {"#"}, 1)
        fragment == IF f <= Len(s0) THEN From(s0, f + 1) ELSE Null
        s1 == Upto(s0, f - 1)
        q == FindFrom(s1, {"?"}, 1)
        query == IF q <= Len(s1) THEN From(s1, q + 1) ELSE Null
        s2 == Upto(s1, q - 1)
        c == FindFrom(s2, {":"}, 1)
        hasScheme == /\ 1 < c /\ c <= Len(s2)
                     /\ LowerChar(CharAt(s2, 1)) \in Letters
                     /\ AllIn(Upto(s2, c - 1), SchemeChars)
        scheme == ToLowerCase(Upto(s2, c - 1))
        rest == From(s2, c + 1)
    IN  IF hasScheme
        THEN IF scheme \in SpecialSchemes
             THEN IF base # NoBase /\ base.scheme = scheme /\ ~StartsWith(rest, "//")
                  THEN ParseRelative(rest, query, fragment, base)
                  ELSE ParseAuthority(scheme, SkipSlashes(rest), query, fragment)
             ELSE IF StartsWith(rest, "//")
             THEN ParseAuthority(scheme, From(rest, 3), query, fragment)
             ELSE [scheme |-> scheme, host |-> Null, port |-> "", path |-> rest,
                   opaque |-> ~StartsWith(rest, "/"),
                   query |-> query, fragment |-> fragment]
        ELSE IF base = NoBase THEN URLFailure
        ELSE IF base.opaque
        THEN IF s2 = "" /\ query = Null /\ fragment # Null
             THEN [base EXCEPT !.fragment = fragment]
             ELSE URLFailure
        ELSE ParseRelative(s2, query, fragment, base)

\* URL.prototype.toString / href
SerializeURL(u) ==
    u.scheme \o ":"
    \o (IF u.host = Null THEN ""
        ELSE "//" \o u.host \o (IF u.port = "" THEN "" ELSE ":" \o u.port))
    \o u.path
    \o (IF u.query = Null THEN "" ELSE "?" \o u.query)
    \o (IF u.fragment = Null THEN "" ELSE "#" \o u.fragment)

\* a URL object used as the base argument of new URL is serialized and
\* parsed again
BaseOf(u) == ParseURL(SerializeURL(u), NoBase)

\* URL.prototype.hostname
Hostname(u) == IF u.host = Null THEN "" ELSE u.host

(***************************************************************************)
(* app.js: configuration.                                                  *)
(***************************************************************************)
MAX_LOGO_BYTES == 2 * 1024 * 1024

Platforms ==
    {"facebook", "linkedin", "twitter", "youtube", "discord", "instagram",
     "pinterest", "snapchat", "tiktok"}

SOCIAL_DOMAINS ==
    [facebook |-> {"facebook.com"},
     linkedin |-> {"linkedin.com"},
     twitter |-> {"twitter.com", "x.com"},
     youtube |-> {"youtube.com", "youtu.be"},
     discord |-> {"discord.com"},
     instagram |-> {"instagram.com"},
     pinterest |-> {"pinterest.com"},
     snapchat |-> {"snapchat.com"},
     tiktok |-> {"tiktok.com"}]

emptySocialProfiles == [key \in Platforms |-> Null]

\* JavaScript truthiness of a value that is null or a string
Truthy(v) == v # Null /\ v # Undefined /\ v # ""

(***************************************************************************)
(* extractSocialProfiles: one anchor at a time, in document order.         *)
(***************************************************************************)
\* the suffix test without the dot in front of the domain
DomainMatchesNoDot(hostname, domain) ==
    hostname = domain \/ EndsWith(hostname, domain)

\* hostname === domain || hostname.endsWith(`.${domain}`)
DomainMatches(hostname, domain) ==
    hostname = domain \/ EndsWith(hostname, "." \o domain)

\* domains.some(...)
PlatformMatches(hostname, key) ==
    \E domain \in SOCIAL_DOMAINS[key] : DomainMatches(hostname, domain)

\* the guard left out: a later matching anchor overwrites the field
KeepFirstFoundNever(found, key) == FALSE

\* if (found[key]) continue; // keep first found link
KeepFirstFound(found, key) == Truthy(found[key])

\* the body of the .each callback for one a[href] element
SocialAnchorStep(found, href, baseUrl) ==
    IF ~Truthy(href) THEN found
    ELSE LET resolved == ParseURL(href, BaseOf(baseUrl))
         IN  IF resolved = URLFailure THEN found
             ELSE LET absolute == SerializeURL(resolved)
                      reparsed == ParseURL(absolute, NoBase)
                  IN  IF reparsed = URLFailure THEN found
                      ELSE LET hostname == ToLowerCase(Hostname(reparsed))
                           IN  [key \in Platforms |->
                                   IF KeepFirstFound(found, key) THEN found[key]
                                   ELSE IF PlatformMatches(hostname, key)
                                   THEN absolute
                                   ELSE found[key]]

RECURSIVE SocialFrom(_, _, _, _)
SocialFrom(found, anchors, i, baseUrl) ==
    IF i > Len(anchors) THEN found
    ELSE SocialFrom(SocialAnchorStep(found, anchors[i], baseUrl),
                    anchors, i + 1, baseUrl)

extractSocialProfiles(anchors, baseUrl) ==
    SocialFrom(emptySocialProfiles, anchors, 1, baseUrl)

(***************************************************************************)
(* scoreImageCandidate and the candidate scan of fetchCompanyLogo.         *)
(***************************************************************************)
\* the score without the rule for 'site' or 'main'
scoreImageCandidateNoSite(src, alt, id, cls) ==
    LET haystack == src \o " " \o alt \o " " \o id \o " " \o cls
    IN  (IF Includes(haystack, "logo") THEN 10 ELSE 0)
      + (IF Includes(haystack, "brand") THEN 4 ELSE 0)
      + (IF Includes(haystack, "header") \/ Includes(haystack, "navbar")
         THEN 2 ELSE 0)
      + (IF Includes(src, "/logo.") THEN 5 ELSE 0)

\* the score counting 'header' and 'navbar' as two rules
scoreImageCandidateStacksNavbar(src, alt, id, cls) ==
    LET haystack == src \o " " \o alt \o " " \o id \o " " \o cls
    IN  (IF Includes(haystack, "logo") THEN 10 ELSE 0)
      + (IF Includes(haystack, "brand") THEN 4 ELSE 0)
      + (IF Includes(haystack, "header") THEN 2 ELSE 0)
      + (IF Includes(haystack, "navbar") THEN 2 ELSE 0)
      + (IF Includes(haystack, "site") \/ Includes(haystack, "main")
         THEN 1 ELSE 0)
      + (IF Includes(src, "/logo.") THEN 5 ELSE 0)

scoreImageCandidate(src, alt, id, cls) ==
    LET haystack == src \o " " \o alt \o " " \o id \o " " \o cls
    IN  (IF Includes(haystack, "logo") THEN 10 ELSE 0)
      + (IF Includes(haystack, "brand") THEN 4 ELSE 0)
      + (IF Includes(haystack, "header") \/ Includes(haystack, "navbar")
         THEN 2 ELSE 0)
      + (IF Includes(haystack, "site") \/ Includes(haystack, "main")
         THEN 1 ELSE 0)
      + (IF Includes(src, "/logo.") THEN 5 ELSE 0)

\* /\.(jpe?g|png)(\?|#|$)/.test(lowerSrc)
ExtensionMatches(lowerSrc) ==
    \E i \in 1..Len(lowerSrc) : \E ext \in {".jpg", ".jpeg", ".png"} :
        /\ StartsWithAt(lowerSrc, ext, i)
        /\ \/ i + Len(ext) = Len(lowerSrc) + 1
           \/ CharAt(lowerSrc, i + Len(ext)) \in {"?", "#"}

\* the extension test left out of the early returns
ImageSkippedNoExtension(src) ==
    \/ ~Truthy(src)
    \/ StartsWith(src, "data:")

\* the early returns of the $('img').each callback
ImageSkipped(src) ==
    \/ ~Truthy(src)
    \/ StartsWith(src, "data:")
    \/ ~ExtensionMatches(ToLowerCase(src))

\* lines 113-121: the attributes are lowercased before they are scored
CandidateScore(src, el) ==
    scoreImageCandidate(ToLowerCase(src), ToLowerCase(el.alt),
                        ToLowerCase(el.id), ToLowerCase(el.cls))

Threw == [threw |-> TRUE, candidates |-> <<>>]

\* the $('img').each loop; new URL(src, parsedUrl) is not guarded, so a src
\* that does not resolve makes the whole loop throw
RECURSIVE ScanFrom(_, _, _, _)
ScanFrom(imgs, i, parsedUrl, candidates) ==
    IF i > Len(imgs) THEN [threw |-> FALSE, candidates |-> candidates]
    ELSE LET el == imgs[i]
             src == Trim(el.src)
         IN  IF ImageSkipped(src)
             THEN ScanFrom(imgs, i + 1, parsedUrl, candidates)
             ELSE LET score == CandidateScore(src, el)
                      resolved == ParseURL(src, BaseOf(parsedUrl))
                  IN  IF resolved = URLFailure THEN Threw
                      ELSE ScanFrom(imgs, i + 1, parsedUrl,
                               Append(candidates,
                                   [url |-> SerializeURL(resolved),
                                    score |-> score]))

ScanImages(imgs, parsedUrl) == ScanFrom(imgs, 1, parsedUrl, <<>>)

\* an insertion that puts c before the elements of equal score
RECURSIVE InsertByScoreUnstable(_, _)
InsertByScoreUnstable(sorted, c) ==
    IF sorted = <<>> THEN <<c>>
    ELSE IF Head(sorted).score > c.score
    THEN <<Head(sorted)>> \o InsertByScoreUnstable(Tail(sorted), c)
    ELSE <<c>> \o sorted

\* candidates.sort((a, b) => b.score - a.score): Array.prototype.sort is
\* stable, so c goes after every element whose score is not smaller
RECURSIVE InsertByScore(_, _)
InsertByScore(sorted, c) ==
    IF sorted = <<>> THEN <<c>>
    ELSE IF Head(sorted).score >= c.score
    THEN <<Head(sorted)>> \o InsertByScore(Tail(sorted), c)
    ELSE <<c>> \o sorted

RECURSIVE SortFrom(_, _, _)
SortFrom(candidates, i, sorted) ==
    IF i > Len(candidates) THEN sorted
    ELSE SortFrom(candidates, i + 1, InsertByScore(sorted, candidates[i]))

SortCandidates(candidates) == SortFrom(candidates, 1, <<>>)

(***************************************************************************)
(* downloadAndValidateImage, in its two awaits: the response head          *)
(* (fetch) and the response body (res.buffer()).                           *)
(***************************************************************************)
NetError == [error |-> TRUE]

\* res.ok
ResponseOk(res) == 200 <= res.status /\ res.status <= 299

\* (res.headers.get('content-type') || '').toLowerCase()
ContentTypeOf(res) ==
    IF Truthy(res.contentType) THEN ToLowerCase(res.contentType) ELSE ""

TypeAccepted(contentType) ==
    LET isJpeg == \/ StartsWith(contentType, "image/jpeg")
                  \/ StartsWith(contentType, "image/jpg")
        isPng == StartsWith(contentType, "image/png")
    IN  isJpeg \/ isPng

Continue == [continue |-> TRUE]

\* the content-type tested before the status
ValidateHeadTypeFirst(res) ==
    IF res = NetError THEN [ok |-> FALSE, reason |-> "download_error"]
    ELSE IF ~TypeAccepted(ContentTypeOf(res))
    THEN [ok |-> FALSE, reason |-> "unsupported_type"]
    ELSE IF ~ResponseOk(res) THEN [ok |-> FALSE, reason |-> "fetch_failed"]
    ELSE Continue

\* lines 206-220: the outcome once the head has arrived; Continue when the
\* function goes on to read the body
ValidateHead(res) ==
    IF res = NetError THEN [ok |-> FALSE, reason |-> "download_error"]
    ELSE IF ~ResponseOk(res) THEN [ok |-> FALSE, reason |-> "fetch_failed"]
    ELSE IF ~TypeAccepted(ContentTypeOf(res))
    THEN [ok |-> FALSE, reason |-> "unsupported_type"]
    ELSE Continue

\* the size test with a strict comparison
SizeRejectedStrict(size) == size > MAX_LOGO_BYTES

SizeRejected(size) == size >= MAX_LOGO_BYTES

\* lines 222-246: the outcome once the body has been read; a buffer is
\* modelled by its length
ValidateBody(imageUrl, contentType, body) ==
    IF body = NetError THEN [ok |-> FALSE, reason |-> "download_error"]
    ELSE LET size == body.length
         IN  IF SizeRejected(size)
             THEN [ok |-> FALSE, tooLarge |-> TRUE, reason |-> "too_large",
                   size |-> size]
             ELSE [ok |-> TRUE, tooLarge |-> FALSE,
                   logo |-> [url |-> imageUrl, size |-> size,
                             contentType |-> contentType, data |-> body]]

(***************************************************************************)
(* The inputs and the remote servers' answers the model draws from.        *)
(***************************************************************************)
InputPool ==
    {Undefined, "", "  ", " \t ", "not a url", "http://", "acme.test",
     "mailto:info@acme.test", " https://Acme.test/shop/index.html "}

ImgPool ==
    {[src |-> "/img/logo.png", alt |-> "", id |-> "", cls |-> ""],
     [src |-> "banner.JPG?v=2", alt |-> "Main banner", id |-> "", cls |-> ""],
     [src |-> " photo.jpeg ", alt |-> "", id |-> "main", cls |-> ""],
     [src |-> "icon.gif", alt |-> "logo", id |-> "", cls |-> ""],
     [src |-> "https://cdn.acme.test:port/logo.png", alt |-> "", id |-> "",
      cls |-> ""]}

PageHrefPool == {"https://m.facebook.com/acme", "/contact"}

StatusPool == {200, 404}

ContentTypePool ==
    {Null, "image/png", "Image/JPEG; charset=binary", "image/jpg", "image/gif"}

SizePool == {4096, MAX_LOGO_BYTES - 1, MAX_LOGO_BYTES, MAX_LOGO_BYTES + 1}

RECURSIVE SeqsUpTo(_, _)
SeqsUpTo(S, n) ==
    IF n = 0 THEN {<<>>}
    ELSE LET shorter == SeqsUpTo(S, n - 1)
         IN  shorter \cup {Append(q, e) : q \in shorter, e \in S}

\* a parsed page: its a[href] elements and its img elements, each in
\* document order
Pages ==
    {[anchors |-> a, imgs |-> m] :
        a \in SeqsUpTo(PageHrefPool, MaxAnchors), m \in SeqsUpTo(ImgPool, MaxImgs)}

\* what fetch(url) can answer: node-fetch rejects for a URL that is not
\* http(s), and for any transport failure
FetchOutcomes(url, contentTypes) ==
    IF ~(StartsWith(url, "http://") \/ StartsWith(url, "https://"))
    THEN {NetError}
    ELSE {NetError}
         \cup {[status |-> st, contentType |-> ct] :
                  st \in StatusPool, ct \in contentTypes}

\* where a redirected image request ends up ({ redirect: 'follow' })
RedirectTarget == "https://static.acme.test/assets/3f9a.png"

\* what the fetch of an image can answer: res.url is the URL requested or,
\* after a redirect, another one
ImageOutcomes(url, contentTypes) ==
    LET answers == FetchOutcomes(url, contentTypes)
    IN  (answers \cap {NetError})
        \cup {[status |-> res.status, contentType |-> res.contentType,
                url |-> u] :
                 res \in answers \ {NetError}, u \in {url, RedirectTarget}}

Buffers == {[length |-> n] : n \in SizePool}

(***************************************************************************)
(* State: one record per invocation of fetchCompanyLogo.                   *)
(*   pc            where the invocation is suspended                       *)
(*   fetches       the URLs handed to fetch so far, in order               *)
(*   checks        the logoCheck values returned so far, in order          *)
(*   inFlight      the number of fetches awaiting their response           *)
(*   pageRes       the answer to the page fetch, once it has arrived       *)
(*   bodies        per validated candidate, the length of the body that    *)
(*                 res.buffer() read, -1 when no body was read             *)
(*   contentType,  the header and the res.url of the image response while  *)
(*   resUrl        downloadAndValidateImage awaits its body                *)
(* loop is the anchor loop of extractSocialProfiles run on its own, http   *)
(* one exchange with a /logo handler of index.js, call one application of  *)
(* a function of app.js run on its own.                                    *)
(***************************************************************************)
VARIABLES req, loop, http, call

vars == <<req, loop, http, call>>

Unset == [unset |-> TRUE]

NewRequest(targetUrl) ==
    [pc |-> "start", targetUrl |-> targetUrl, parsedUrl |-> Unset,
     html |-> Unset, socialProfiles |-> Unset, candidates |-> <<>>,
     idx |-> 0, contentType |-> "", checks |-> <<>>, fetches |-> <<>>,
     inFlight |-> 0, pageRes |-> Unset, bodies |-> <<>>, result |-> Unset,
     resUrl |-> ""]

\* return finalResult
Return(rq, finalResult) ==
    [rq EXCEPT !.pc = "done", !.result = finalResult, !.inFlight = 0]

\* the result values fetchCompanyLogo builds
EmptyUrlResult == [success |-> FALSE, message |-> "False"]

MalformedUrlResult == [success |-> FALSE, message |-> "Malformed URL"]

PageNotOkResult ==
    [success |-> FALSE, message |-> "could not identify logo",
     socialProfiles |-> emptySocialProfiles]

NoCandidatesResult(socialProfiles) ==
    [success |-> FALSE, message |-> "could not identify logo",
     socialProfiles |-> socialProfiles]

SuccessResult(logo, socialProfiles) ==
    [success |-> TRUE, message |-> "OK", logo |-> logo,
     socialProfiles |-> socialProfiles]

\* the size failure reporting success
TooLargeResultSucceeds(socialProfiles) ==
    [success |-> TRUE, message |-> "logo greater than image limit",
     socialProfiles |-> socialProfiles]

TooLargeResult(socialProfiles) ==
    [success |-> FALSE, message |-> "logo greater than image limit",
     socialProfiles |-> socialProfiles]

\* the exhausted loop answering with a fresh all-null record
ExhaustedResultReset(socialProfiles) ==
    [success |-> FALSE, message |-> "could not identify logo",
     socialProfiles |-> emptySocialProfiles]

ExhaustedResult(socialProfiles) ==
    [success |-> FALSE, message |-> "could not identify logo",
     socialProfiles |-> socialProfiles]

CaughtResult ==
    [success |-> FALSE, message |-> "could not identify logo",
     socialProfiles |-> emptySocialProfiles]

\* the try block without its catch: the exception reaches the caller
CaughtRethrows(rq) == [rq EXCEPT !.pc = "threw", !.inFlight = 0]

\* lines 176-185: the catch of the try block, then return finalResult
Caught(rq) == Return(rq, CaughtResult)

\* await fetch(url, { redirect: 'follow' })
IssueFetch(rq, pc, url) ==
    [rq EXCEPT !.pc = pc, !.fetches = Append(@, url), !.inFlight = @ + 1]

\* the emptiness test without the trim
IsEmptyUrlNoTrim(targetUrl) == ~Truthy(targetUrl)

\* !targetUrl || !String(targetUrl).trim()
IsEmptyUrl(targetUrl) == ~Truthy(targetUrl) \/ ~Truthy(Trim(targetUrl))

\* lines 66-91: up to the first await
StartRequest(rq) ==
    IF IsEmptyUrl(rq.targetUrl)
    THEN Return(rq, EmptyUrlResult)
    ELSE LET parsedUrl == ParseURL(rq.targetUrl, NoBase)
         IN  IF parsedUrl = URLFailure
             THEN Return(rq, MalformedUrlResult)
             ELSE IssueFetch([rq EXCEPT !.parsedUrl = parsedUrl],
                             "pageFetch", SerializeURL(parsedUrl))

\* the page response handled without the pageRes.ok test
OnPageResponseIgnoresStatus(rq, pageRes) ==
    LET r1 == [rq EXCEPT !.pageRes = pageRes, !.inFlight = 0]
    IN  IF pageRes = NetError THEN Caught(r1)
        ELSE [r1 EXCEPT !.pc = "pageBody"]

\* lines 91-99: the page response head has arrived (or the fetch rejected)
OnPageResponse(rq, pageRes) ==
    LET r1 == [rq EXCEPT !.pageRes = pageRes, !.inFlight = 0]
    IN  IF pageRes = NetError THEN Caught(r1)
        ELSE IF ~ResponseOk(pageRes) THEN Return(r1, PageNotOkResult)
        ELSE [r1 EXCEPT !.pc = "pageBody"]

\* the loop without the break after a valid logo
OnLogoCheckNoBreak(rq, logoCheck) ==
    LET r1 == [rq EXCEPT !.checks = Append(@, logoCheck), !.inFlight = 0]
        tooLarge == "tooLarge" \in DOMAIN logoCheck /\ logoCheck.tooLarge
    IN  IF tooLarge
        THEN Return(r1, TooLargeResult(rq.socialProfiles))
        ELSE IF rq.idx < Len(rq.candidates)
        THEN IssueFetch([r1 EXCEPT !.idx = @ + 1], "imgFetch",
                        rq.candidates[rq.idx + 1].url)
        ELSE IF logoCheck.ok /\ "logo" \in DOMAIN logoCheck
        THEN Return(r1, SuccessResult(logoCheck.logo, rq.socialProfiles))
        ELSE Return(r1, ExhaustedResult(rq.socialProfiles))

\* the loop treating a size rejection like the other rejections
OnLogoCheckSizeFallsThrough(rq, logoCheck) ==
    LET r1 == [rq EXCEPT !.checks = Append(@, logoCheck), !.inFlight = 0]
    IN  IF logoCheck.ok /\ "logo" \in DOMAIN logoCheck
        THEN Return(r1, SuccessResult(logoCheck.logo, rq.socialProfiles))
        ELSE IF rq.idx < Len(rq.candidates)
        THEN IssueFetch([r1 EXCEPT !.idx = @ + 1], "imgFetch",
                        rq.candidates[rq.idx + 1].url)
        ELSE Return(r1, ExhaustedResult(rq.socialProfiles))

\* the loop giving up at the first rejection of any kind
OnLogoCheckStopsOnReject(rq, logoCheck) ==
    LET r1 == [rq EXCEPT !.checks = Append(@, logoCheck), !.inFlight = 0]
        tooLarge == "tooLarge" \in DOMAIN logoCheck /\ logoCheck.tooLarge
    IN  IF logoCheck.ok /\ ~tooLarge /\ "logo" \in DOMAIN logoCheck
        THEN Return(r1, SuccessResult(logoCheck.logo, rq.socialProfiles))
        ELSE IF tooLarge
        THEN Return(r1, TooLargeResult(rq.socialProfiles))
        ELSE Return(r1, ExhaustedResult(rq.socialProfiles))

\* lines 137-173: what the for loop does with one logoCheck
OnLogoCheck(rq, logoCheck) ==
    LET r1 == [rq EXCEPT !.checks = Append(@, logoCheck), !.inFlight = 0]
        tooLarge == "tooLarge" \in DOMAIN logoCheck /\ logoCheck.tooLarge
    IN  IF logoCheck.ok /\ ~tooLarge /\ "logo" \in DOMAIN logoCheck
        THEN Return(r1, SuccessResult(logoCheck.logo, rq.socialProfiles))
        ELSE IF tooLarge
        THEN Return(r1, TooLargeResult(rq.socialProfiles))
        ELSE IF rq.idx < Len(rq.candidates)
        THEN IssueFetch([r1 EXCEPT !.idx = @ + 1], "imgFetch",
                        rq.candidates[rq.idx + 1].url)
        ELSE Return(r1, ExhaustedResult(rq.socialProfiles))

\* the candidates downloaded all at once instead of one after the other
OnPageBodyConcurrent(rq, html) ==
    IF html = NetError THEN Caught(rq)
    ELSE LET socialProfiles == extractSocialProfiles(html.anchors, rq.parsedUrl)
             scan == ScanImages(html.imgs, rq.parsedUrl)
             candidates == scan.candidates
             r1 == [rq EXCEPT !.html = html]
         IN  IF scan.threw THEN Caught(r1)
             ELSE IF Len(candidates) = 0
             THEN Return([r1 EXCEPT !.socialProfiles = socialProfiles],
                         NoCandidatesResult(socialProfiles))
             ELSE LET sorted == SortCandidates(candidates)
                  IN  [r1 EXCEPT !.socialProfiles = socialProfiles,
                                 !.candidates = sorted, !.idx = 1,
                                 !.pc = "imgFetch",
                                 !.fetches = @ \o [k \in 1..Len(sorted) |->
                                                      sorted[k].url],
                                 !.inFlight = Len(sorted)]

\* the candidates kept in one array of the module, shared by the
\* invocations, instead of the array created at line 106
OnPageBodySharedCandidates(rq, html) ==
    IF html = NetError THEN Caught(rq)
    ELSE LET socialProfiles == extractSocialProfiles(html.anchors, rq.parsedUrl)
             scan == ScanImages(html.imgs, rq.parsedUrl)
             shared == IF DOMAIN req = {1, 2}
                       THEN req[1].candidates \o req[2].candidates
                       ELSE <<>>
             candidates == shared \o scan.candidates
             r1 == [rq EXCEPT !.html = html]
         IN  IF scan.threw THEN Caught(r1)
             ELSE IF Len(candidates) = 0
             THEN Return([r1 EXCEPT !.socialProfiles = socialProfiles],
                         NoCandidatesResult(socialProfiles))
             ELSE LET sorted == SortCandidates(candidates)
                  IN  IssueFetch([r1 EXCEPT !.socialProfiles = socialProfiles,
                                            !.candidates = sorted, !.idx = 1],
                                 "imgFetch", sorted[1].url)

\* lines 99-140: the page text has arrived (or reading it failed)
OnPageBody(rq, html) ==
    IF html = NetError THEN Caught(rq)
    ELSE LET socialProfiles == extractSocialProfiles(html.anchors, rq.parsedUrl)
             scan == ScanImages(html.imgs, rq.parsedUrl)
             candidates == scan.candidates
             r1 == [rq EXCEPT !.html = html]
         IN  IF scan.threw THEN Caught(r1)
             ELSE IF Len(candidates) = 0
             THEN Return([r1 EXCEPT !.socialProfiles = socialProfiles],
                         NoCandidatesResult(socialProfiles))
             ELSE LET sorted == SortCandidates(candidates)
                  IN  IssueFetch([r1 EXCEPT !.socialProfiles = socialProfiles,
                                            !.candidates = sorted, !.idx = 1],
                                 "imgFetch", sorted[1].url)

\* downloadAndValidateImage lines 207-220, then the loop of fetchCompanyLogo
OnImageResponse(rq, res) ==
    LET logoCheck == ValidateHead(res)
    IN  IF logoCheck = Continue
        THEN [rq EXCEPT !.pc = "imgBody", !.contentType = ContentTypeOf(res),
                        !.resUrl = res.url]
        ELSE OnLogoCheck([rq EXCEPT !.bodies = Append(@, -1)], logoCheck)

\* the logo reported under the URL the response came from
OnImageBodyFinalUrl(rq, body) ==
    OnLogoCheck([rq EXCEPT !.bodies =
                     Append(@, IF body = NetError THEN -1 ELSE body.length),
                           !.resUrl = ""],
                ValidateBody(rq.resUrl, rq.contentType, body))

\* downloadAndValidateImage lines 222-246, then the loop of fetchCompanyLogo
OnImageBody(rq, body) ==
    OnLogoCheck([rq EXCEPT !.bodies =
                     Append(@, IF body = NetError THEN -1 ELSE body.length),
                           !.resUrl = ""],
                ValidateBody(rq.candidates[rq.idx].url, rq.contentType, body))

(***************************************************************************)
(* Actions.                                                                *)
(***************************************************************************)
Idle == [idle |-> TRUE]

Init ==
    /\ \E targetUrl \in InputPool : req = [r \in {1} |-> NewRequest(targetUrl)]
    /\ loop = Idle
    /\ http = Idle
    /\ call = Idle

Start ==
    \E r \in DOMAIN req :
    /\ req[r].pc = "start"
    /\ req' = [req EXCEPT ![r] = StartRequest(req[r])]
    /\ UNCHANGED <<loop, http, call>>

PageResponse ==
    \E r \in DOMAIN req :
    /\ req[r].pc = "pageFetch"
    /\ \E pageRes \in FetchOutcomes(req[r].fetches[1], {"text/html"}) :
          req' = [req EXCEPT ![r] = OnPageResponse(req[r], pageRes)]
    /\ UNCHANGED <<loop, http, call>>

\* the continuation of await pageRes.text(), the page drawn from pages
PageBodyFrom(pages) ==
    \E r \in DOMAIN req :
    /\ req[r].pc = "pageBody"
    /\ \E html \in pages \cup {NetError} :
          req' = [req EXCEPT ![r] = OnPageBody(req[r], html)]
    /\ UNCHANGED <<loop, http, call>>

PageBody == PageBodyFrom(Pages)

\* the continuation of await fetch(imageUrl)
ImageResponseFrom(contentTypes) ==
    \E r \in DOMAIN req :
    /\ req[r].pc = "imgFetch"
    /\ \E res \in ImageOutcomes(req[r].candidates[req[r].idx].url, contentTypes) :
          req' = [req EXCEPT ![r] = OnImageResponse(req[r], res)]
    /\ UNCHANGED <<loop, http, call>>

ImageResponse == ImageResponseFrom(ContentTypePool)

\* the continuation of await res.buffer()
ImageBodyFrom(buffers) ==
    \E r \in DOMAIN req :
    /\ req[r].pc = "imgBody"
    /\ \E body \in buffers \cup {NetError} :
          req' = [req EXCEPT ![r] = OnImageBody(req[r], body)]
    /\ UNCHANGED <<loop, http, call>>

ImageBody == ImageBodyFrom(Buffers)

Next ==
    \/ Start
    \/ PageResponse
    \/ PageBody
    \/ ImageResponse
    \/ ImageBody

Spec == Init /\ [][Next]_vars


(***************************************************************************)
(* Two invocations of fetchCompanyLogo in one process: each await is a     *)
(* point where the event loop may run a step of the other invocation.      *)
(* The servers answer from smaller pools than in Spec.                     *)
(***************************************************************************)
RequestIds == {1, 2}

ConcurrentInputPool ==
    {" https://Acme.test/shop/index.html ", "https://facebook.com/acme/",
     "not a url"}

ConcurrentPages ==
    {[anchors |-> <<"/contact">>, imgs |-> <<>>],
     [anchors |-> <<>>,
      imgs |-> <<[src |-> "/img/logo.png", alt |-> "", id |-> "", cls |-> ""]>>],
     [anchors |-> <<"https://m.facebook.com/acme">>,
      imgs |-> <<[src |-> "banner.JPG?v=2", alt |-> "Main banner", id |-> "",
                  cls |-> ""],
                 [src |-> "/img/logo.png", alt |-> "", id |-> "", cls |-> ""]>>],
     [anchors |-> <<"https://m.facebook.com/acme">>,
      imgs |-> <<[src |-> "https://cdn.acme.test:port/logo.png", alt |-> "",
                  id |-> "", cls |-> ""]>>]}

ConcurrentContentTypes == {"image/png", "image/gif"}

ConcurrentBuffers == {[length |-> 4096], [length |-> MAX_LOGO_BYTES]}

ConcurrentInit ==
    /\ \E targetUrls \in [RequestIds -> ConcurrentInputPool] :
          req = [r \in RequestIds |-> NewRequest(targetUrls[r])]
    /\ loop = Idle
    /\ http = Idle
    /\ call = Idle

ConcurrentPageBody == PageBodyFrom(ConcurrentPages)

ConcurrentImageResponse == ImageResponseFrom(ConcurrentContentTypes)

ConcurrentImageBody == ImageBodyFrom(ConcurrentBuffers)

ConcurrentNext ==
    \/ Start
    \/ PageResponse
    \/ ConcurrentPageBody
    \/ ConcurrentImageResponse
    \/ ConcurrentImageBody

ConcurrentSpec == ConcurrentInit /\ [][ConcurrentNext]_vars


(***************************************************************************)
(* extractSocialProfiles on its own: the $('a[href]').each loop, one       *)
(* anchor per step.  loop.i is the index of the next anchor.               *)
(***************************************************************************)
SocialHrefPool ==
    {"https://m.facebook.com/acme", "https://www.facebook.com/other",
     "https://notfacebook.com/acme", "HTTPS://X.com/acme", "https://max.com/",
     "/contact", "http://", ""}

SocialBasePool ==
    {"https://acme.test/shop/index.html", "https://facebook.com/acme/"}

SocialInit ==
    /\ req = <<>>
    /\ http = Idle
    /\ call = Idle
    /\ \E anchors \in SeqsUpTo(SocialHrefPool, MaxLoopAnchors) :
       \E base \in SocialBasePool :
          loop = [anchors |-> anchors, baseUrl |-> ParseURL(base, NoBase),
                  i |-> 1, found |-> emptySocialProfiles]

SocialStep ==
    /\ loop # Idle
    /\ loop.i <= Len(loop.anchors)
    /\ loop' = [loop EXCEPT
                   !.found = SocialAnchorStep(@, loop.anchors[loop.i],
                                              loop.baseUrl),
                   !.i = @ + 1]
    /\ UNCHANGED <<req, http, call>>

SocialNext == SocialStep

SocialSpec == SocialInit /\ [][SocialNext]_vars


(***************************************************************************)
(* The handlers of index.js: app.get('/logo') and app.post('/logo').       *)
(* http holds one exchange: the method, the url as the handler reads it    *)
(* (req.query.url or req.body.url), the number of calls of                 *)
(* fetchCompanyLogo made so far, and the response once it is sent.  The    *)
(* invocation the handler awaits is request 1 of req.                      *)
(***************************************************************************)
MethodPool == {"GET", "POST"}

\* the guard of the handlers without the trim
MissingUrlNoTrim(url) == ~Truthy(url)

\* !url || !String(url).trim()
MissingUrl(url) == ~Truthy(url) \/ ~Truthy(Trim(url))

\* Buffer toString('base64'): four characters for every three bytes, the
\* last group padded; a buffer is modelled by its length, the string too
Base64(buffer) == [base64Length |-> 4 * ((buffer.length + 2) \div 3)]

serializeResult(result) ==
    IF result.success /\ "logo" \in DOMAIN result
       /\ "data" \in DOMAIN result.logo
    THEN [result EXCEPT !.logo.data = Base64(@)]
    ELSE result

\* res.status(status).json(json)
SendJson(exchange, status, json) ==
    [exchange EXCEPT !.pc = "sent",
                     !.response = [status |-> status, json |-> json]]

\* the body of either handler up to the await
HandleLogo ==
    IF MissingUrl(http.url)
    THEN /\ http' = SendJson(http, 400, [success |-> FALSE, message |-> "False"])
         /\ UNCHANGED req
    ELSE /\ http' = [http EXCEPT !.pc = "awaiting", !.invocations = @ + 1]
         /\ req' = [r \in {1} |-> NewRequest(http.url)]

HandlerInit ==
    /\ req = <<>>
    /\ loop = Idle
    /\ call = Idle
    /\ \E method \in MethodPool : \E url \in InputPool :
          http = [method |-> method, url |-> url, pc |-> "received",
                  invocations |-> 0, response |-> Unset]

GetLogo ==
    /\ http # Idle
    /\ http.method = "GET"
    /\ http.pc = "received"
    /\ HandleLogo
    /\ UNCHANGED <<loop, call>>

PostLogo ==
    /\ http # Idle
    /\ http.method = "POST"
    /\ http.pc = "received"
    /\ HandleLogo
    /\ UNCHANGED <<loop, call>>

\* the continuation of the await: res.status(200).json(serializeResult(result))
LogoRespond ==
    /\ http # Idle
    /\ http.pc = "awaiting"
    /\ 1 \in DOMAIN req
    /\ req[1].pc = "done"
    /\ http' = SendJson(http, 200, serializeResult(req[1].result))
    /\ UNCHANGED <<req, loop, call>>

HandlerNext ==
    \/ GetLogo
    \/ PostLogo
    \/ Start
    \/ PageResponse
    \/ PageBody
    \/ ImageResponse
    \/ ImageBody
    \/ LogoRespond

HandlerSpec == HandlerInit /\ [][HandlerNext]_vars


(***************************************************************************)
(* The scoring of one img element on its own: lines 108-121 applied to     *)
(* the attributes of the element.                                          *)
(***************************************************************************)
ScoreSrcPool ==
    {"a.jpg", "/img/logo.png", " /Assets/LOGO.PNG ", "Brand/hero.jpeg",
     "main/navbar.png"}

ScoreAltPool == {"", "Main banner", "ACME Brand"}

ScoreIdPool == {"", "navbar-img", "Header"}

ScoreClsPool == {"", "site-logo-header", "SITE-LOGO-HEADER", "NAVBAR header"}

ScoreInit ==
    /\ req = <<>>
    /\ loop = Idle
    /\ http = Idle
    /\ \E src \in ScoreSrcPool : \E alt \in ScoreAltPool :
       \E id \in ScoreIdPool : \E cls \in ScoreClsPool :
          call = [op |-> "score", pc |-> "called",
                  el |-> [src |-> src, alt |-> alt, id |-> id, cls |-> cls],
                  score |-> -1]

ScoreApply ==
    /\ call # Idle
    /\ call.op = "score"
    /\ call.pc = "called"
    /\ call' = [call EXCEPT !.pc = "returned",
                            !.score = CandidateScore(Trim(call.el.src), call.el)]
    /\ UNCHANGED <<req, loop, http>>

ScoreNext == ScoreApply

ScoreSpec == ScoreInit /\ [][ScoreNext]_vars


(***************************************************************************)
(* The sort of the candidates on its own (line 135).                       *)
(***************************************************************************)
MaxSortLen == 3

SortPool ==
    {[url |-> "https://acme.test/a.png", score |-> 1],
     [url |-> "https://acme.test/b.jpg", score |-> 1],
     [url |-> "https://acme.test/logo.png", score |-> 15],
     [url |-> "https://acme.test/c.jpeg", score |-> 0]}

SortInit ==
    /\ req = <<>>
    /\ loop = Idle
    /\ http = Idle
    /\ \E candidates \in SeqsUpTo(SortPool, MaxSortLen) :
          call = [op |-> "sort", pc |-> "called", candidates |-> candidates,
                  sorted |-> <<>>]

SortApply ==
    /\ call # Idle
    /\ call.op = "sort"
    /\ call.pc = "called"
    /\ call' = [call EXCEPT !.pc = "returned",
                            !.sorted = SortCandidates(call.candidates)]
    /\ UNCHANGED <<req, loop, http>>

SortNext == SortApply

SortSpec == SortInit /\ [][SortNext]_vars


(***************************************************************************)
(* The candidate scan on its own (lines 105-125), over pages whose img     *)
(* elements all resolve against the base.                                  *)
(***************************************************************************)
MaxScanImgs == 2

ScanSrcPool ==
    {"", "  ", "data:image/png;base64,AAAA", "logo.png", "Logo.JPEG?v=3#top",
     "banner.gif", "images/hero", "pixel.gif?from=/logo.png",
     "page.html#photo.jpg", "photo.png.webp"}

ScanBase == "https://acme.test/shop/index.html"

ScanInit ==
    /\ req = <<>>
    /\ loop = Idle
    /\ http = Idle
    /\ \E srcs \in SeqsUpTo(ScanSrcPool, MaxScanImgs) :
          call = [op |-> "scan", pc |-> "called",
                  imgs |-> [k \in 1..Len(srcs) |->
                               [src |-> srcs[k], alt |-> "", id |-> "",
                                cls |-> ""]],
                  parsedUrl |-> ParseURL(ScanBase, NoBase),
                  candidates |-> <<>>, threw |-> FALSE]

ScanApply ==
    /\ call # Idle
    /\ call.op = "scan"
    /\ call.pc = "called"
    /\ LET scan == ScanImages(call.imgs, call.parsedUrl)
       IN  call' = [call EXCEPT !.pc = "returned",
                                !.candidates = scan.candidates,
                                !.threw = scan.threw]
    /\ UNCHANGED <<req, loop, http>>

ScanNext == ScanApply

ScanSpec == ScanInit /\ [][ScanNext]_vars


(***************************************************************************)
(* downloadAndValidateImage on its own: the server's whole answer (head    *)
(* and body) is fixed at the start, the function reads the head, then,     *)
(* if it goes on, the body.                                                *)
(***************************************************************************)
ValidateStatusPool == {200, 204, 404, 500}

ValidateUrl == "https://acme.test/img/logo.png"

Pending == [pending |-> TRUE]

ValidateInit ==
    /\ req = <<>>
    /\ loop = Idle
    /\ http = Idle
    /\ \E res \in {NetError}
                  \cup {[status |-> st, contentType |-> ct] :
                           st \in ValidateStatusPool, ct \in ContentTypePool} :
       \E body \in Buffers \cup {NetError} :
          call = [op |-> "validate", pc |-> "called", imageUrl |-> ValidateUrl,
                  res |-> res, body |-> body, contentType |-> "",
                  check |-> Pending]

\* lines 207-220: await fetch, the status and the content-type tests
ValidateFetch ==
    /\ call # Idle
    /\ call.op = "validate"
    /\ call.pc = "called"
    /\ LET logoCheck == ValidateHead(call.res)
       IN  IF logoCheck = Continue
           THEN call' = [call EXCEPT !.pc = "head",
                                     !.contentType = ContentTypeOf(call.res)]
           ELSE call' = [call EXCEPT !.pc = "returned", !.check = logoCheck]
    /\ UNCHANGED <<req, loop, http>>

\* lines 222-246: await res.buffer(), the size test
ValidateRead ==
    /\ call # Idle
    /\ call.op = "validate"
    /\ call.pc = "head"
    /\ call' = [call EXCEPT !.pc = "returned",
                            !.check = ValidateBody(call.imageUrl,
                                                   call.contentType, call.body)]
    /\ UNCHANGED <<req, loop, http>>

ValidateNext ==
    \/ ValidateFetch
    \/ ValidateRead

ValidateSpec == ValidateInit /\ [][ValidateNext]_vars


(***************************************************************************)
(* The callback of $('a[href]').each on its own: one anchor applied to     *)
(* an empty record, for hrefs built from every domain of the table.        *)
(***************************************************************************)
AllDomains == UNION {SOCIAL_DOMAINS[key] : key \in Platforms}

HostPrefixPool == {"", "www.", "not", "my-"}

AnchorHrefPool ==
    {"https://" \o prefix \o domain \o "/acme" :
        prefix \in HostPrefixPool, domain \in AllDomains}
    \cup {"https://max.com/", "https://facebook.com.evil.test/", "/contact"}

AnchorInit ==
    /\ req = <<>>
    /\ loop = Idle
    /\ http = Idle
    /\ \E href \in AnchorHrefPool : \E base \in SocialBasePool :
          call = [op |-> "anchor", pc |-> "called", href |-> href,
                  baseUrl |-> ParseURL(base, NoBase),
                  found |-> emptySocialProfiles,
                  after |-> emptySocialProfiles]

AnchorApply ==
    /\ call # Idle
    /\ call.op = "anchor"
    /\ call.pc = "called"
    /\ call' = [call EXCEPT !.pc = "returned",
                            !.after = SocialAnchorStep(call.found, call.href,
                                                       call.baseUrl)]
    /\ UNCHANGED <<req, loop, http>>

AnchorNext == AnchorApply

AnchorSpec == AnchorInit /\ [][AnchorNext]_vars


(***************************************************************************)
(* Vocabulary of the properties.                                           *)
(***************************************************************************)
NonSizeReasons == {"fetch_failed", "unsupported_type", "download_error"}

NonSizeRejection(logoCheck) ==
    ~logoCheck.ok /\ logoCheck.reason \in NonSizeReasons

\* the SocialProfiles the classifier computes for the page of a request
ComputedProfiles(rq) == extractSocialProfiles(rq.html.anchors, rq.parsedUrl)

Descending(candidates) ==
    \A i, j \in 1..Len(candidates) :
        i < j => candidates[i].score >= candidates[j].score

\* the URLs fetched when the first n candidates have been downloaded
FetchesUpTo(rq, n) ==
    <<SerializeURL(rq.parsedUrl)>> \o [k \in 1..n |-> rq.candidates[k].url]

\* the src as the scan reads it matches the .jpg/.jpeg/.png pattern
HasImageExtension(el) == ExtensionMatches(ToLowerCase(Trim(el.src)))

(***************************************************************************)
(* C1.  The first candidate, in descending-score order, whose validation   *)
(* is Accepted ends the request at once with Success('OK', its logo, the   *)
(* computed SocialProfiles): every candidate before it was rejected for a  *)
(* reason other than size, and no candidate after it is downloaded.        *)
(***************************************************************************)
C1_FirstAcceptedWins ==
    \A r \in DOMAIN req :
        LET rq == req[r]
        IN  \A i \in 1..Len(rq.checks) :
                rq.checks[i].ok =>
                    /\ rq.pc = "done"
                    /\ rq.result = [success |-> TRUE, message |-> "OK",
                                    logo |-> rq.checks[i].logo,
                                    socialProfiles |-> ComputedProfiles(rq)]
                    /\ rq.result.logo.url = rq.candidates[i].url
                    /\ \A j \in 1..(i - 1) : NonSizeRejection(rq.checks[j])
                    /\ Len(rq.checks) = i
                    /\ rq.fetches = FetchesUpTo(rq, i)
                    /\ Descending(rq.candidates)

C1_Witness ==
    \E r \in DOMAIN req :
        /\ req[r].pc = "done"
        /\ Len(req[r].candidates) = 2
        /\ req[r].candidates[1].score > req[r].candidates[2].score
        /\ Len(req[r].checks) = 2
        /\ NonSizeRejection(req[r].checks[1])
        /\ req[r].checks[2].ok

(***************************************************************************)
(* C2.  On a page with at least two candidates, when the body downloaded   *)
(* for the highest-scored candidate (the first in sorted order) is larger  *)
(* than 2 MiB, the request fails with 'logo greater than image limit' and  *)
(* no lower-scored candidate is downloaded.                                *)
(***************************************************************************)
C2_TooLargeShortCircuits ==
    \A r \in DOMAIN req :
        LET rq == req[r]
        IN  ( /\ Len(rq.candidates) >= 2
              /\ Len(rq.bodies) >= 1
              /\ rq.bodies[1] > 2 * 1024 * 1024 ) =>
                /\ rq.pc = "done"
                /\ rq.result = [success |-> FALSE,
                                message |-> "logo greater than image limit",
                                socialProfiles |-> ComputedProfiles(rq)]
                /\ rq.fetches = FetchesUpTo(rq, 1)
                /\ Descending(rq.candidates)

C2_Witness ==
    \E r \in DOMAIN req :
        /\ req[r].pc = "done"
        /\ Len(req[r].candidates) = 2
        /\ req[r].candidates[1].score > req[r].candidates[2].score
        /\ req[r].bodies = <<2 * 1024 * 1024 + 1>>

(***************************************************************************)
(* C3.  A step in which a candidate is rejected as fetch_failed,           *)
(* unsupported_type or download_error while a next candidate exists does   *)
(* not end the request: it issues the download of the next candidate.      *)
(***************************************************************************)
C3_Step(r) ==
    LET a == req[r]
        b == req'[r]
    IN  ( /\ Len(b.checks) = Len(a.checks) + 1
          /\ NonSizeRejection(b.checks[Len(b.checks)])
          /\ a.idx < Len(a.candidates) ) =>
            /\ b.pc = "imgFetch"
            /\ b.result = Unset
            /\ b.idx = a.idx + 1
            /\ b.fetches = Append(a.fetches, a.candidates[a.idx + 1].url)
            /\ b.inFlight = 1

C3_RejectionFallsThrough == [][\A r \in DOMAIN req : C3_Step(r)]_vars

C3_Witness ==
    \E r \in DOMAIN req :
        /\ req[r].pc = "imgFetch"
        /\ req[r].idx = 2
        /\ req[r].checks = <<[ok |-> FALSE, reason |-> "unsupported_type"]>>
        /\ req[r].fetches = FetchesUpTo(req[r], 2)

(***************************************************************************)
(* C4.  When every candidate has been validated and each was rejected for  *)
(* a reason other than size, the request fails with 'could not identify    *)
(* logo' and carries the SocialProfiles the classifier computed.           *)
(***************************************************************************)
AllRejectedNonSize(rq) ==
    /\ Len(rq.candidates) >= 1
    /\ Len(rq.checks) = Len(rq.candidates)
    /\ \A i \in 1..Len(rq.checks) : NonSizeRejection(rq.checks[i])

C4_ExhaustedKeepsProfiles ==
    \A r \in DOMAIN req :
        AllRejectedNonSize(req[r]) =>
            /\ req[r].pc = "done"
            /\ req[r].result = [success |-> FALSE,
                                message |-> "could not identify logo",
                                socialProfiles |-> ComputedProfiles(req[r])]

C4_Witness ==
    \E r \in DOMAIN req :
        /\ AllRejectedNonSize(req[r])
        /\ Len(req[r].candidates) = 2
        /\ req[r].result.socialProfiles # emptySocialProfiles

(***************************************************************************)
(* C5.  For a page that was fetched and read, none of whose img elements   *)
(* has a src matching the jpg/jpeg/png extension pattern, the request      *)
(* fails with 'could not identify logo', its socialProfiles has the nine   *)
(* platform fields, each null or the URL of an anchor of the page, and no  *)
(* image is downloaded.                                                    *)
(***************************************************************************)
NoImageMatches(rq) ==
    /\ rq.html # Unset
    /\ \A k \in 1..Len(rq.html.imgs) : ~HasImageExtension(rq.html.imgs[k])

C5_NoCandidateFailure ==
    \A r \in DOMAIN req :
        LET rq == req[r]
        IN  NoImageMatches(rq) =>
                /\ rq.pc = "done"
                /\ rq.result = [success |-> FALSE,
                                message |-> "could not identify logo",
                                socialProfiles |-> ComputedProfiles(rq)]
                /\ DOMAIN rq.result.socialProfiles = Platforms
                /\ \A key \in Platforms :
                      \/ rq.result.socialProfiles[key] = Null
                      \/ \E k \in 1..Len(rq.html.anchors) :
                            rq.result.socialProfiles[key] =
                                SerializeURL(ParseURL(rq.html.anchors[k],
                                                      rq.parsedUrl))
                /\ rq.fetches = FetchesUpTo(rq, 0)

C5_Witness ==
    \E r \in DOMAIN req :
        /\ NoImageMatches(req[r])
        /\ Len(req[r].html.imgs) = 2
        /\ req[r].pc = "done"
        /\ req[r].result.socialProfiles["facebook"] # Null

(***************************************************************************)
(* C6.  A blank or whitespace-only input yields Failure 'False'; an input  *)
(* that is not blank and does not parse as an absolute URL yields Failure  *)
(* 'Malformed URL'.  Neither result has a socialProfiles or a logo field,  *)
(* and no HTTP request is issued.                                          *)
(***************************************************************************)
BlankInput(targetUrl) == targetUrl # Undefined /\ Trim(targetUrl) = ""

UnparsableInput(targetUrl) ==
    /\ targetUrl # Undefined
    /\ Trim(targetUrl) # ""
    /\ ParseURL(targetUrl, NoBase) = URLFailure

C6_InputValidation ==
    \A r \in DOMAIN req :
        LET rq == req[r]
        IN  /\ (rq.pc # "start" /\ BlankInput(rq.targetUrl)) =>
                  /\ rq.pc = "done"
                  /\ rq.result = [success |-> FALSE, message |-> "False"]
                  /\ rq.fetches = <<>>
            /\ (rq.pc # "start" /\ UnparsableInput(rq.targetUrl)) =>
                  /\ rq.pc = "done"
                  /\ rq.result = [success |-> FALSE, message |-> "Malformed URL"]
                  /\ rq.fetches = <<>>

C6_Witness ==
    \E r \in DOMAIN req :
        /\ req[r].pc = "done"
        /\ req[r].targetUrl = " \t "
        /\ DOMAIN req[r].result = {"success", "message"}

(***************************************************************************)
(* C7.  Every invocation ends in a result value: no step of the pipeline   *)
(* lets an exception reach the caller, a finished invocation has returned  *)
(* a Success or Failure record, and every step brings the invocation       *)
(* strictly closer to its return, whatever the servers answer.             *)
(***************************************************************************)
ResultMessages ==
    {"False", "Malformed URL", "could not identify logo",
     "logo greater than image limit", "OK"}

WellFormedResult(result) ==
    /\ {"success", "message"} \subseteq DOMAIN result
    /\ result.success \in BOOLEAN
    /\ result.message \in ResultMessages

\* an upper bound on the number of steps left before the invocation ends
StepsLeft(rq) ==
    CASE rq.pc = "start" -> 2 * MaxImgs + 3
      [] rq.pc = "pageFetch" -> 2 * MaxImgs + 2
      [] rq.pc = "pageBody" -> 2 * MaxImgs + 1
      [] rq.pc = "imgFetch" -> 2 * (Len(rq.candidates) - rq.idx) + 2
      [] rq.pc = "imgBody" -> 2 * (Len(rq.candidates) - rq.idx) + 1
      [] rq.pc = "done" -> 0
      [] OTHER -> -1

C7_NoEscape ==
    \A r \in DOMAIN req :
        /\ req[r].pc \in {"start", "pageFetch", "pageBody", "imgFetch",
                          "imgBody", "done"}
        /\ req[r].pc = "done" <=> req[r].result # Unset
        /\ req[r].pc = "done" => WellFormedResult(req[r].result)

C7_Progress ==
    \A r \in DOMAIN req :
        req'[r] # req[r] =>
            /\ StepsLeft(req[r]) > 0
            /\ 0 <= StepsLeft(req'[r])
            /\ StepsLeft(req'[r]) < StepsLeft(req[r])

C7_AlwaysReturnsResult == []C7_NoEscape /\ [][C7_Progress]_vars

C7_Witness ==
    \E r \in DOMAIN req :
        /\ req[r].pc = "done"
        /\ req[r].html # Unset
        /\ ScanImages(req[r].html.imgs, req[r].parsedUrl).threw
        /\ WellFormedResult(req[r].result)

(***************************************************************************)
(* C8.  When the page fetch fails, by a non-success status or a transport  *)
(* error, the request fails with 'could not identify logo' and an all-null *)
(* SocialProfiles, and no image is downloaded.                             *)
(***************************************************************************)
PageFetchFailed(rq) ==
    /\ rq.pageRes # Unset
    /\ \/ rq.pageRes = NetError
       \/ rq.pageRes.status \notin 200..299

C8_PageFetchFailure ==
    \A r \in DOMAIN req :
        PageFetchFailed(req[r]) =>
            /\ req[r].pc = "done"
            /\ req[r].result = [success |-> FALSE,
                                message |-> "could not identify logo",
                                socialProfiles |-> [key \in Platforms |-> Null]]
            /\ req[r].fetches = FetchesUpTo(req[r], 0)

C8_Witness ==
    \E r \in DOMAIN req :
        /\ req[r].pc = "done"
        /\ req[r].pageRes # Unset
        /\ req[r].pageRes # NetError
        /\ req[r].pageRes.status = 404

(***************************************************************************)
(* C9.  Once the page has been read and the classifier has run, every      *)
(* terminal result of the request carries exactly the SocialProfiles the   *)
(* classifier computed.                                                    *)
(***************************************************************************)
C9_ResultCarriesComputedProfiles ==
    \A r \in DOMAIN req :
        (req[r].pc = "done" /\ req[r].html # Unset) =>
            req[r].result.socialProfiles = ComputedProfiles(req[r])

(***************************************************************************)
(* C10.  In the anchor loop of extractSocialProfiles every platform field  *)
(* holds the absolute URL of the first anchor, in document order, whose    *)
(* hostname equals a domain of the platform or ends with "." and that      *)
(* domain; it is null when no anchor matched, and once written it is       *)
(* never changed.                                                          *)
(***************************************************************************)
\* the lowercased hostname and the absolute URL of an anchor whose href is
\* not empty and resolves; Null for any other anchor
AnchorTarget(href, baseUrl) ==
    LET u == ParseURL(href, baseUrl)
    IN  IF href = "" \/ u = URLFailure
        THEN [hostname |-> Null, absolute |-> Null]
        ELSE [hostname |-> ToLowerCase(Hostname(u)),
              absolute |-> SerializeURL(u)]

RECURSIVE AnchorTargets(_, _, _)
AnchorTargets(anchors, n, baseUrl) ==
    IF n = 0 THEN <<>>
    ELSE Append(AnchorTargets(anchors, n - 1, baseUrl),
                AnchorTarget(anchors[n], baseUrl))

IsPlatformHost(hostname, key) ==
    /\ hostname # Null
    /\ \E domain \in SOCIAL_DOMAINS[key] :
          \/ hostname = domain
          \/ /\ Len(hostname) > Len(domain) + 1
             /\ From(hostname, Len(hostname) - Len(domain)) = "." \o domain

FirstMatch(targets, key) ==
    LET M == {j \in 1..Len(targets) : IsPlatformHost(targets[j].hostname, key)}
    IN  IF M = {} THEN Null
        ELSE targets[CHOOSE j \in M : \A k \in M : j <= k].absolute

C10_FirstMatchHeld ==
    loop # Idle =>
        LET targets == AnchorTargets(loop.anchors, loop.i - 1, loop.baseUrl)
        IN  \A key \in Platforms : loop.found[key] = FirstMatch(targets, key)

C10_WrittenOnce ==
    loop # Idle =>
        \A key \in Platforms :
            loop.found[key] # Null => loop'.found[key] = loop.found[key]

C10_FirstMatchWins == []C10_FirstMatchHeld /\ [][C10_WrittenOnce]_vars

C10_Witness ==
    /\ loop # Idle
    /\ loop.i = 4
    /\ loop.anchors[1] = "https://m.facebook.com/acme"
    /\ loop.anchors[2] = "https://notfacebook.com/acme"
    /\ loop.anchors[3] = "https://www.facebook.com/other"
    /\ loop.found["facebook"] = "https://m.facebook.com/acme"
    /\ loop.found["twitter"] = Null

(***************************************************************************)
(* Vocabulary of the properties of the functions run on their own.         *)
(***************************************************************************)
\* the application of op held in call has returned
Returned(op) == call # Idle /\ call.op = op /\ call.pc = "returned"

UpperChar(c) ==
    IF \E u \in DOMAIN UpperToLower : UpperToLower[u] = c
    THEN CHOOSE u \in DOMAIN UpperToLower : UpperToLower[u] = c
    ELSE c

RECURSIVE ToUpperCase(_)
ToUpperCase(s) ==
    IF Len(s) = 0 THEN ""
    ELSE UpperChar(CharAt(s, 1)) \o ToUpperCase(From(s, 2))

ScoringKeywords ==
    {"logo", "brand", "header", "navbar", "site", "main", "/logo."}

NoKeyword(text) ==
    \A kw \in ScoringKeywords : ~Includes(ToLowerCase(text), kw)

(***************************************************************************)
(* C11.  In every Success result, logo.contentType is exactly one of the   *)
(* two values 'image/jpeg' and 'image/png'.                                *)
(***************************************************************************)
C11_ContentTypeIsJpegOrPng ==
    \A r \in DOMAIN req :
        (req[r].pc = "done" /\ req[r].result.success) =>
            req[r].result.logo.contentType \in {"image/jpeg", "image/png"}

(***************************************************************************)
(* C12.  An img element whose class is "site-logo-header" and whose src,   *)
(* alt and id hold no scoring keyword scores exactly 12 (10 for 'logo'     *)
(* plus 2 for 'header').                                                   *)
(***************************************************************************)
SiteLogoHeaderOnly(el) ==
    /\ el.cls = "site-logo-header"
    /\ NoKeyword(el.src)
    /\ NoKeyword(el.alt)
    /\ NoKeyword(el.id)

C12_SiteLogoHeaderScores12 ==
    (Returned("score") /\ SiteLogoHeaderOnly(call.el)) => call.score = 12

(***************************************************************************)
(* C12, amended.  The class "site-logo-header" also contains 'site': such  *)
(* an element scores exactly 13 (10 for 'logo', 2 for 'header', 1 for      *)
(* 'site').                                                                *)
(***************************************************************************)
C12_SiteLogoHeaderScores13 ==
    (Returned("score") /\ SiteLogoHeaderOnly(call.el)) => call.score = 13

C12_Witness == Returned("score") /\ SiteLogoHeaderOnly(call.el)

(***************************************************************************)
(* C13.  When the src of an img element passes the extension filter but    *)
(* does not resolve to an absolute URL against the base, the scan skips    *)
(* only that element: the other qualifying images of the page still become *)
(* candidates and the request goes on to validate them.                    *)
(***************************************************************************)
PassesFilter(el) == ~ImageSkipped(Trim(el.src))

Resolves(el, parsedUrl) ==
    ParseURL(Trim(el.src), BaseOf(parsedUrl)) # URLFailure

C13_UnresolvableSrcSkipped ==
    \A r \in DOMAIN req :
        LET rq == req[r]
        IN  (rq.pc = "done" /\ rq.html # Unset) =>
                LET imgs == rq.html.imgs
                    passing == {k \in 1..Len(imgs) : PassesFilter(imgs[k])}
                    resolving == {k \in passing : Resolves(imgs[k], rq.parsedUrl)}
                IN  (resolving # {} /\ resolving # passing) =>
                        /\ Len(rq.candidates) = Cardinality(resolving)
                        /\ Len(rq.fetches) >= 2
                        /\ Len(rq.checks) >= 1

(***************************************************************************)
(* C14.  Every result of fetchCompanyLogo has one of the five messages     *)
(* 'False', 'Malformed URL', 'could not identify logo', 'logo greater than *)
(* image limit', 'OK'; success is true exactly when the message is 'OK',   *)
(* and the logo field is present exactly when success is true.             *)
(***************************************************************************)
C14_ResultShape ==
    \A r \in DOMAIN req :
        req[r].pc = "done" =>
            LET result == req[r].result
            IN  /\ result.message \in
                      {"False", "Malformed URL", "could not identify logo",
                       "logo greater than image limit", "OK"}
                /\ result.success <=> (result.message = "OK")
                /\ ("logo" \in DOMAIN result) <=> result.success

C14_Witness ==
    \E r \in DOMAIN req :
        /\ req[r].pc = "done"
        /\ req[r].result.message = "OK"
        /\ "logo" \in DOMAIN req[r].result

(***************************************************************************)
(* C15.  A /logo handler, GET or POST, answers 400 with                    *)
(* {success:false, message:'False'} exactly when the url is missing or     *)
(* blank, and then fetchCompanyLogo is never invoked; for every other url  *)
(* it invokes fetchCompanyLogo exactly once and answers 200 with the       *)
(* serialized result, whatever the outcome.                                *)
(***************************************************************************)
MissingOrBlank(url) == url = Undefined \/ Trim(url) = ""

C15_HandlerStatus ==
    /\ http.invocations <= 1
    /\ http.invocations = Cardinality(DOMAIN req)
    /\ http.pc = "awaiting" => (~MissingOrBlank(http.url) /\ http.invocations = 1)
    /\ http.pc = "sent" =>
          IF MissingOrBlank(http.url)
          THEN /\ http.response = [status |-> 400,
                                   json |-> [success |-> FALSE,
                                             message |-> "False"]]
               /\ http.invocations = 0
          ELSE /\ http.response.status = 200
               /\ http.invocations = 1
               /\ req[1].pc = "done"
               /\ req[1].targetUrl = http.url
               /\ http.response.json.success = req[1].result.success
               /\ http.response.json.message = req[1].result.message
               /\ DOMAIN http.response.json = DOMAIN req[1].result

C15_Witness ==
    /\ http.pc = "sent"
    /\ http.method = "POST"
    /\ http.response.status = 200
    /\ http.response.json.message = "logo greater than image limit"

WithScore(candidates, s) == SelectSeq(candidates, LAMBDA c : c.score = s)

Occurrences(candidates, c) ==
    Cardinality({k \in 1..Len(candidates) : candidates[k] = c})

TopScored(candidates, k) ==
    \A j \in 1..Len(candidates) : candidates[j].score <= candidates[k].score

C17_StableDescendingSort ==
    Returned("sort") =>
        LET before == call.candidates
            after == call.sorted
        IN  /\ Len(after) = Len(before)
            /\ \A c \in SortPool : Occurrences(after, c) = Occurrences(before, c)
            /\ Descending(after)
            /\ \A s \in {c.score : c \in SortPool} :
                   WithScore(after, s) = WithScore(before, s)
            /\ before # <<>> =>
                   \E k \in 1..Len(before) :
                       /\ TopScored(before, k)
                       /\ \A j \in 1..(k - 1) : ~TopScored(before, j)
                       /\ after[1] = before[k]

C17_Witness ==
    /\ Returned("sort")
    /\ Len(call.candidates) = 3
    /\ call.candidates[1].score = 1
    /\ call.candidates[2].score = 15
    /\ call.candidates[3].score = 1
    /\ call.candidates[1] # call.candidates[3]
    /\ call.sorted = <<call.candidates[2], call.candidates[1],
                       call.candidates[3]>>

(***************************************************************************)
(* C18.  Within one request the fetches are sequential: the page fetch has *)
(* completed before any image download starts, at most one image download  *)
(* is in flight, the downloaded candidates are a prefix of the sorted      *)
(* candidate sequence, each downloaded once, so there are never more       *)
(* image downloads than candidates.                                        *)
(***************************************************************************)
ImageDownloads(rq) == Len(rq.fetches) - 1

C18_SequentialFetches ==
    \A r \in DOMAIN req :
        LET rq == req[r]
        IN  /\ rq.inFlight \in {0, 1}
            /\ Len(rq.fetches) >= 1 =>
                  /\ ImageDownloads(rq) <= Len(rq.candidates)
                  /\ rq.fetches = FetchesUpTo(rq, ImageDownloads(rq))
                  /\ ImageDownloads(rq) - Len(rq.checks) \in {0, 1}
                  /\ ImageDownloads(rq) = rq.idx
            /\ Len(rq.fetches) >= 2 =>
                  /\ rq.pageRes # Unset
                  /\ rq.pageRes # NetError
                  /\ rq.html # Unset
            /\ rq.pc = "pageFetch" => Len(rq.fetches) = 1

C18_Witness ==
    \E r \in DOMAIN req :
        /\ req[r].pc = "done"
        /\ Len(req[r].candidates) = 2
        /\ Len(req[r].fetches) = 3
        /\ req[r].checks[1].reason = "download_error"
        /\ req[r].fetches[2] # req[r].fetches[3]

(***************************************************************************)
(* C19.  The score of an element is the sum of the weights of the rules    *)
(* its lowercased attributes match: 10 for 'logo', 4 for 'brand', 2 for    *)
(* 'header' or 'navbar', 1 for 'site' or 'main', 5 for a src containing    *)
(* '/logo.'; it lies between 0 and 22 and does not change when only the    *)
(* letter case of the attributes changes.                                  *)
(***************************************************************************)
Mentions(el, kw) ==
    \E text \in {Trim(el.src), el.alt, el.id, el.cls} :
        Includes(ToLowerCase(text), kw)

Weight(matched, w) == IF matched THEN w ELSE 0

RuleSum(el) ==
      Weight(Mentions(el, "logo"), 10)
    + Weight(Mentions(el, "brand"), 4)
    + Weight(Mentions(el, "header") \/ Mentions(el, "navbar"), 2)
    + Weight(Mentions(el, "site") \/ Mentions(el, "main"), 1)
    + Weight(Includes(ToLowerCase(el.src), "/logo."), 5)

Recased(el, Case(_)) ==
    [src |-> Case(el.src), alt |-> Case(el.alt), id |-> Case(el.id),
     cls |-> Case(el.cls)]

ScoreOf(el) == CandidateScore(Trim(el.src), el)

C19_ScoreIsRuleSum ==
    Returned("score") =>
        /\ call.score = RuleSum(call.el)
        /\ 0 <= call.score
        /\ call.score <= 22
        /\ call.score = ScoreOf(Recased(call.el, ToUpperCase))
        /\ call.score = ScoreOf(Recased(call.el, ToLowerCase))

C19_Witness ==
    /\ Returned("score")
    /\ call.score = 22
    /\ call.el.cls = "SITE-LOGO-HEADER"
    /\ call.el.src = " /Assets/LOGO.PNG "

(***************************************************************************)
(* C20.  An img element becomes a candidate only if its src is non-empty,  *)
(* is not a data: URL and has a path ending in .jpg, .jpeg or .png,        *)
(* whatever the letter case and whatever query or fragment follows; an     *)
(* element whose path ends in another extension, or in none, is never a    *)
(* candidate.                                                              *)
(***************************************************************************)
\* the src up to its query or fragment
PathOf(src) == Upto(src, FindFrom(src, {"?", "#"}, 1) - 1)

HasImagePath(el) ==
    LET src == Trim(el.src)
    IN  /\ src # ""
        /\ ~StartsWith(src, "data:")
        /\ \E ext \in {".jpg", ".jpeg", ".png"} :
               EndsWith(ToLowerCase(PathOf(src)), ext)

C20_OnlyImagePathsBecomeCandidates ==
    Returned("scan") =>
        \A i \in 1..Len(call.candidates) :
            \E k \in 1..Len(call.imgs) :
                /\ HasImagePath(call.imgs[k])
                /\ call.candidates[i].url =
                       SerializeURL(ParseURL(Trim(call.imgs[k].src),
                                             BaseOf(call.parsedUrl)))

(***************************************************************************)
(* C22.  downloadAndValidateImage tests the status, then the content-type, *)
(* then the size: a status outside 200..299 gives fetch_failed whatever    *)
(* the content-type and the body, a success status with a content-type     *)
(* that is not accepted gives unsupported_type whatever the body, and      *)
(* too_large is reported only for a success status with an accepted        *)
(* content-type.                                                           *)
(***************************************************************************)
SuccessStatus(res) == res.status \in 200..299

AcceptedHeader(res) ==
    /\ res.contentType # Null
    /\ \E prefix \in {"image/jpeg", "image/jpg", "image/png"} :
           StartsWith(ToLowerCase(res.contentType), prefix)

C22_CheckPrecedence ==
    Returned("validate") =>
        /\ (call.res # NetError /\ ~SuccessStatus(call.res)) =>
               call.check = [ok |-> FALSE, reason |-> "fetch_failed"]
        /\ (call.res # NetError /\ SuccessStatus(call.res)
               /\ ~AcceptedHeader(call.res)) =>
               call.check = [ok |-> FALSE, reason |-> "unsupported_type"]
        /\ ("reason" \in DOMAIN call.check /\ call.check.reason = "too_large") =>
               /\ call.res # NetError
               /\ SuccessStatus(call.res)
               /\ AcceptedHeader(call.res)

C22_Witness ==
    /\ Returned("validate")
    /\ call.res = [status |-> 404, contentType |-> "image/png"]
    /\ call.body = [length |-> MAX_LOGO_BYTES + 1]
    /\ call.check.reason = "fetch_failed"

(***************************************************************************)
(* C23.  One anchor fills at most one platform field: its hostname equals  *)
(* or dot-suffix-matches the domains of at most one platform, so no URL    *)
(* is recorded under two platforms, and a hostname that only ends with a   *)
(* domain's letters, without the dot boundary, fills no field.             *)
(***************************************************************************)
FilledBy(before, after) == {key \in Platforms : after[key] # before[key]}

\* hostname ends with the letters of a domain of the table but is neither
\* that domain nor a subdomain of it
EndsWithLettersOnly(hostname) ==
    /\ hostname # Null
    /\ \E domain \in AllDomains : EndsWith(hostname, domain)
    /\ \A key \in Platforms : ~IsPlatformHost(hostname, key)

C23_AtMostOnePlatform ==
    Returned("anchor") =>
        LET target == AnchorTarget(call.href, call.baseUrl)
            matched == {key \in Platforms :
                           IsPlatformHost(target.hostname, key)}
            filled == FilledBy(call.found, call.after)
        IN  /\ Cardinality(matched) <= 1
            /\ Cardinality(filled) <= 1
            /\ filled = matched
            /\ \A k1, k2 \in Platforms :
                   (k1 # k2 /\ call.after[k1] # Null) =>
                       call.after[k1] # call.after[k2]
            /\ EndsWithLettersOnly(target.hostname) =>
                   call.after = emptySocialProfiles

C23_Witness ==
    /\ Returned("anchor")
    /\ call.href = "https://notx.com/acme"
    /\ EndsWithLettersOnly(AnchorTarget(call.href, call.baseUrl).hostname)
    /\ call.after = emptySocialProfiles

(***************************************************************************)
(* C24.  In every Success result logo.url is the absolute URL of a         *)
(* candidate scanned from the fetched page, the URL that was requested     *)
(* and not the one a redirect led to, logo.size is the byte length of      *)
(* logo.data, and logo.size is below 2097152.                              *)
(***************************************************************************)
C24_LogoOfRequestedCandidate ==
    \A r \in DOMAIN req :
        (req[r].pc = "done" /\ req[r].result.success) =>
            LET rq == req[r]
                logo == rq.result.logo
                scanned == ScanImages(rq.html.imgs, rq.parsedUrl).candidates
            IN  /\ \E k \in 1..Len(scanned) : scanned[k].url = logo.url
                /\ ParseURL(logo.url, NoBase) # URLFailure
                /\ logo.url = rq.fetches[Len(rq.fetches)]
                /\ logo.url # RedirectTarget
                /\ logo.size = logo.data.length
                /\ logo.size < 2097152

C24_Witness ==
    \E r \in DOMAIN req :
        /\ req[r].pc = "done"
        /\ req[r].result.success
        /\ Len(req[r].fetches) = 3
        /\ req[r].result.logo.url = req[r].candidates[2].url
        /\ req[r].result.logo.url # req[r].candidates[1].url
        /\ req[r].result.logo.size = 2097151

(***************************************************************************)
(* C21.  Two invocations interleaved at their awaits each return the       *)
(* result they would return when run alone against the same answers of     *)
(* the servers: each works on the candidate list and the SocialProfiles    *)
(* record of its own page, and no step of one changes anything the other   *)
(* reads.                                                                  *)
(***************************************************************************)
FailureWith(message, socialProfiles) ==
    [success |-> FALSE, message |-> message, socialProfiles |-> socialProfiles]

Mismatch == [mismatch |-> TRUE]

\* the candidate loop run alone over the validations recorded in checks
RECURSIVE AloneLoop(_, _, _, _)
AloneLoop(candidates, checks, i, socialProfiles) ==
    IF i > Len(candidates)
    THEN IF Len(checks) = Len(candidates)
         THEN FailureWith("could not identify logo", socialProfiles)
         ELSE Mismatch
    ELSE IF i > Len(checks) THEN Mismatch
    ELSE LET check == checks[i]
         IN  IF check.ok
             THEN IF check.logo.url = candidates[i].url /\ Len(checks) = i
                  THEN [success |-> TRUE, message |-> "OK", logo |-> check.logo,
                        socialProfiles |-> socialProfiles]
                  ELSE Mismatch
             ELSE IF check.reason = "too_large"
             THEN IF Len(checks) = i
                  THEN FailureWith("logo greater than image limit",
                                   socialProfiles)
                  ELSE Mismatch
             ELSE AloneLoop(candidates, checks, i + 1, socialProfiles)

\* the result of the invocation run alone on its targetUrl against the
\* answers recorded in rq: the page response, the page and the validations
AloneResult(rq) ==
    IF MissingOrBlank(rq.targetUrl)
    THEN [success |-> FALSE, message |-> "False"]
    ELSE LET parsedUrl == ParseURL(rq.targetUrl, NoBase)
         IN  IF parsedUrl = URLFailure
             THEN [success |-> FALSE, message |-> "Malformed URL"]
             ELSE IF \/ rq.pageRes = NetError
                     \/ rq.pageRes.status \notin 200..299
                     \/ rq.html = Unset
             THEN FailureWith("could not identify logo", emptySocialProfiles)
             ELSE LET scan == ScanImages(rq.html.imgs, parsedUrl)
                      own == extractSocialProfiles(rq.html.anchors, parsedUrl)
                  IN  IF scan.threw
                      THEN FailureWith("could not identify logo",
                                       emptySocialProfiles)
                      ELSE AloneLoop(SortCandidates(scan.candidates),
                                     rq.checks, 1, own)

C21_Step ==
    \A r \in DOMAIN req :
        req'[r] # req[r] => \A q \in DOMAIN req \ {r} : req'[q] = req[q]

C21_AloneResults ==
    \A r \in DOMAIN req :
        LET rq == req[r]
        IN  /\ rq.pc = "done" => rq.result = AloneResult(rq)
            /\ rq.html # Unset =>
                   LET scan == ScanImages(rq.html.imgs, rq.parsedUrl)
                   IN  /\ ~scan.threw =>
                              rq.candidates = SortCandidates(scan.candidates)
                       /\ rq.socialProfiles \in
                              {Unset, extractSocialProfiles(rq.html.anchors,
                                                            rq.parsedUrl)}

C21_IndependentRequests == []C21_AloneResults /\ [][C21_Step]_vars

C21_Witness ==
    /\ DOMAIN req = {1, 2}
    /\ req[1].pc = "done"
    /\ req[2].pc = "done"
    /\ req[1].targetUrl # req[2].targetUrl
    /\ Len(req[1].candidates) = 2
    /\ Len(req[2].candidates) = 1
    /\ req[1].result.success
    /\ req[2].result.message = "logo greater than image limit"
    /\ req[1].result.socialProfiles # req[2].result.socialProfiles

=============================================================================
